---- MODULE Spec2Model ----
(***************************************************************************)
(* Model of the crane serial <-> MQTT bridge of src/main.cpp.              *)
(*                                                                         *)
(* The program is setup() followed by loop() forever.  One action models   *)
(* one call of the sketch (setupTopics, ensureWifi, ensureMqtt, one        *)
(* callback invocation of onMqtt from mqtt.loop(), one iteration of the    *)
(* serial drain loop); the collaborators (WiFi, broker, UART) are the      *)
(* environment and act between the calls.                                  *)
(*                                                                         *)
(* Bytes are integers 0..255.  Arduino Strings that hold topic names are   *)
(* TLA+ strings; payloads read from the UART are sequences of bytes.       *)
(***************************************************************************)
EXTENDS Integers, Sequences, FiniteSets, TLC

VARIABLES
    pc,            \* position of the sketch in setup()/loop()
    tCmd, tResp, tLwt,   \* topic Strings (main.cpp:25)
    lineBuf,       \* lineBuf[0 .. lineLen-1] (main.cpp:29-30)
    wifiUp,        \* WiFi.status() == WL_CONNECTED
    mqttUp,        \* mqtt.connected()
    session,       \* broker side: the session (and will) the broker holds
    retained,      \* broker side: retained message of the presence channel
    tx,            \* every byte written to the UART by Serial.write, in order
    fed,           \* every byte read from the UART by Serial.read, in order
    pubLog,        \* every mqtt.publish call of the run, in order
    calls,         \* library calls of the current setup()/loop() invocation
    cnt,           \* run totals of the connectivity calls
    delivered,     \* every (topic, payload) handed to onMqtt, in order
    env,           \* what the environment may still do (remaining budgets)
    start, now, elapsed, wpc   \* ensureWifi's wait loop in detail (SpecWifi)

vars == <<pc, tCmd, tResp, tLwt, lineBuf, wifiUp, mqttUp, session, retained,
          tx, fed, pubLog, calls, cnt, delivered, env, start, now, elapsed, wpc>>

bridgeVars == <<pc, tCmd, tResp, tLwt, lineBuf, wifiUp, mqttUp, session, retained,
                tx, fed, pubLog, calls, cnt, delivered, env>>
waitVars == <<start, now, elapsed, wpc>>

----------------------------------------------------------------------------
(* Program constants *)

\* static const char* CRANE_ID = "crane-1";
CRANE_ID == "crane-1"

\* LINE_BUF is 256 in the source; the model keeps the code's comparisons
\* (lineLen < LINE_BUF - 1) and scales the capacity down so that TLC can
\* overflow a line.
LINE_BUF == 3

NUL == 0
LF == 10
CR == 13

\* Bytes the UART and the command payloads are drawn from: NUL, '\n', '\r', 'A'.
Bytes == {NUL, LF, CR, 65}

----------------------------------------------------------------------------
(* Bounds of the environment *)

MaxInput == 5      \* serial bytes read in a run of the framer specification
MaxCmds == 2       \* callback invocations in a run of the command specification
MaxNet == 2        \* drops and failed attempts in a run of the network specification
MaxPayload == 2    \* longest command payload
MaxJitter == 1     \* ms by which one delay(300) may overshoot


\* millis() is a 32-bit unsigned counter, held as <<high word, low word>> of
\* 16 bits each, so that its arithmetic is exact modulo 2^32.
Word == 65536
POLL_MS == 300
TIMEOUT_MS == 20000

\* Values of millis() at the entry of ensureWifi: early after boot, and so
\* close to 2^32 that the counter wraps during the wait.
StartTimes == {<<0, 0>>, <<0, 12345>>, <<0, Word - 150>>,
               <<Word - 1, Word - 20301>>, <<Word - 1, Word - 20000>>,
               <<Word - 1, Word - 10000>>, <<Word - 1, Word - 300>>,
               <<Word - 1, Word - 1>>}

----------------------------------------------------------------------------
(* Wire contract of the broker side: the channel names and presence texts  *)
(* a dashboard uses for crane-1 (main.cpp:116-118, 100, 108).              *)

CmdChannel == "crane/crane-1/cmd"
RespChannel == "crane/crane-1/resp"
PresenceChannel == "crane/crane-1/lwt"
OnlineRecord == "{\"online\":true,\"id\":\"crane-1\"}"
OfflineRecord == "{\"online\":false,\"id\":\"crane-1\"}"

\* Nothing retained yet on the presence channel.
NoRetained == ""

\* Topic names the broker may hand to the callback.
Topics == {CmdChannel, RespChannel, PresenceChannel,
           "crane/crane-1/cmd/x", "crane/crane-1/cm", "crane/crane-2/cmd"}

RECURSIVE SeqsUpTo(_, _)
SeqsUpTo(S, n) ==
    IF n = 0 THEN {<< >>}
    ELSE LET shorter == SeqsUpTo(S, n - 1)
         IN  shorter \cup {Append(s, b) : s \in {t \in shorter : Len(t) = n - 1}, b \in S}

\* Command payloads: every byte string over {'\n', 'A'} up to MaxPayload.
Payloads == SeqsUpTo({LF, 65}, MaxPayload)

\* Inbound messages: any payload on the command channel, "A" on the others.
Messages == {[topic |-> CmdChannel, payload |-> p] : p \in Payloads}
            \cup {[topic |-> t, payload |-> <<65>>] : t \in Topics}

----------------------------------------------------------------------------
(* Strings *)

\* strlen of a NUL-terminated char array.
strlen(cbuf) == (CHOOSE i \in 1..Len(cbuf) :
                    cbuf[i] = NUL /\ \A j \in 1..(i - 1) : cbuf[j] # NUL) - 1

\* String(const char*): copies the bytes before the first NUL.
StringOf(cbuf) == SubSeq(cbuf, 1, strlen(cbuf))

lineLen == Len(lineBuf)

----------------------------------------------------------------------------
(* The broker *)

NoWill == [topic |-> "", payload |-> "", retain |-> FALSE, qos |-> 0]
NoSession == [open |-> FALSE, will |-> NoWill, subs |-> {}]

\* The broker's retained presence value after a message on `topic`.
BrokerStore(ret, topic, payload, retain) ==
    IF retain /\ topic = PresenceChannel THEN payload ELSE ret

\* The broker ends a session without a DISCONNECT: it publishes the will.
BrokerWill(ret, s) ==
    IF s.open THEN BrokerStore(ret, s.will.topic, s.will.payload, s.will.retain)
    ELSE ret

----------------------------------------------------------------------------
(* The sketch *)

\* publish(topic, payload, retain): one mqtt.publish call, logged; the
\* message reaches the broker when the link is up.
PublishCall(topic, payload, retain) ==
    [topic |-> topic, payload |-> payload, retain |-> retain]

\* The state after construction of the globals (main.cpp:21-30), with the
\* environment allowed `e.in` serial bytes, `e.cmd` callback invocations and
\* `e.net` drops or failed attempts.
InitEnv(e) ==
    /\ pc = "setupTopics"
    /\ tCmd = "" /\ tResp = "" /\ tLwt = ""
    /\ lineBuf = << >>
    /\ wifiUp = FALSE
    /\ mqttUp = FALSE
    /\ session = NoSession
    /\ retained = NoRetained
    /\ tx = << >>
    /\ fed = << >>
    /\ pubLog = << >>
    /\ calls = << >>
    /\ cnt = [wifiDown |-> 0, mode |-> 0, begin |-> 0,
              mqttDown |-> 0, connect |-> 0, sub |-> 0]
    /\ delivered = << >>
    /\ env = e
    /\ start = <<0, 0>> /\ now = <<0, 0>> /\ elapsed = 0 /\ wpc = "idle"

\* One call of ensureWifi looked at poll by poll: the link up or down at
\* entry, millis() anywhere in its 32-bit range, wrap-around included.
InitWifi ==
    /\ pc = "setup.ensureWifi"
    /\ tCmd = "crane/crane-1/cmd" /\ tResp = "crane/crane-1/resp" /\ tLwt = "crane/crane-1/lwt"
    /\ lineBuf = << >>
    /\ wifiUp \in BOOLEAN
    /\ mqttUp = FALSE
    /\ session = NoSession
    /\ retained = NoRetained
    /\ tx = << >> /\ fed = << >> /\ pubLog = << >> /\ calls = << >>
    /\ cnt = [wifiDown |-> 0, mode |-> 0, begin |-> 0,
              mqttDown |-> 0, connect |-> 0, sub |-> 0]
    /\ delivered = << >>
    /\ env = [in |-> 0, cmd |-> 0, net |-> 0]
    /\ now \in StartTimes
    /\ start = <<0, 0>> /\ elapsed = 0 /\ wpc = "entry"

\* The connectivity supervisor under MaxNet drops and failed attempts.
Init == InitEnv([in |-> 2, cmd |-> 1, net |-> MaxNet])

\* The line framer under MaxInput serial bytes.
InitFramer == InitEnv([in |-> MaxInput, cmd |-> 1, net |-> 1])

\* The command path under MaxCmds callback invocations.
InitCmd == InitEnv([in |-> 1, cmd |-> MaxCmds, net |-> 1])

\* Mutant: the presence channel gets the response suffix.
SetupTopicsSameSuffix ==
    /\ pc = "setupTopics"
    /\ LET base == "crane/" \o CRANE_ID
       IN  /\ tCmd' = base \o "/cmd"
           /\ tResp' = base \o "/resp"
           /\ tLwt' = base \o "/resp"
    /\ pc' = "setup.ensureWifi"
    /\ UNCHANGED <<lineBuf, wifiUp, mqttUp, session, retained, tx, fed, pubLog,
                   calls, cnt, delivered, env, waitVars>>

\* setupTopics(), main.cpp:120-125 (called from setup(), main.cpp:132).
SetupTopics ==
    /\ pc = "setupTopics"
    /\ LET base == "crane/" \o CRANE_ID
       IN  /\ tCmd' = base \o "/cmd"
           /\ tResp' = base \o "/resp"
           /\ tLwt' = base \o "/lwt"
    /\ pc' = "setup.ensureWifi"
    /\ UNCHANGED <<lineBuf, wifiUp, mqttUp, session, retained, tx, fed, pubLog,
                   calls, cnt, delivered, env, waitVars>>

\* Mutant: no early return, the association is restarted on every call.
EnsureWifiAlways ==
    /\ pc \in {"setup.ensureWifi", "loop.ensureWifi"}
    /\ pc' = IF pc = "setup.ensureWifi" THEN "setup.ensureMqtt" ELSE "loop.ensureMqtt"
    /\ \E joined \in BOOLEAN :
         /\ ~joined => env.net > 0
         /\ wifiUp' = joined
         /\ calls' = <<"WiFi.mode", "WiFi.begin">>
         /\ cnt' = [cnt EXCEPT !.wifiDown = IF wifiUp THEN @ ELSE @ + 1,
                               !.mode = @ + 1, !.begin = @ + 1]
         /\ env' = IF joined THEN env ELSE [env EXCEPT !.net = @ - 1]
    /\ UNCHANGED <<tCmd, tResp, tLwt, lineBuf, mqttUp, session, retained, tx, fed,
                   pubLog, delivered, waitVars>>

\* Mutant: the association is started once and never restarted.
EnsureWifiOnce ==
    /\ pc \in {"setup.ensureWifi", "loop.ensureWifi"}
    /\ pc' = IF pc = "setup.ensureWifi" THEN "setup.ensureMqtt" ELSE "loop.ensureMqtt"
    /\ IF wifiUp \/ cnt.begin > 0
       THEN /\ calls' = << >>
            /\ UNCHANGED <<wifiUp, cnt, env>>
       ELSE \E joined \in BOOLEAN :
              /\ ~joined => env.net > 0
              /\ wifiUp' = joined
              /\ calls' = <<"WiFi.mode", "WiFi.begin">>
              /\ cnt' = [cnt EXCEPT !.wifiDown = @ + 1, !.mode = @ + 1, !.begin = @ + 1]
              /\ env' = IF joined THEN env ELSE [env EXCEPT !.net = @ - 1]
    /\ UNCHANGED <<tCmd, tResp, tLwt, lineBuf, mqttUp, session, retained, tx, fed,
                   pubLog, delivered, waitVars>>

\* ensureWifi(), main.cpp:48-60, as one call: a no-op when the link is up,
\* otherwise WiFi.mode + WiFi.begin and the bounded wait, which ends with the
\* link up or, on timeout, still down.  It is the first call of setup() after
\* setupTopics and of every loop(), so the trace of calls starts afresh here.
EnsureWifi ==
    /\ pc \in {"setup.ensureWifi", "loop.ensureWifi"}
    /\ pc' = IF pc = "setup.ensureWifi" THEN "setup.ensureMqtt" ELSE "loop.ensureMqtt"
    /\ IF wifiUp
       THEN /\ calls' = << >>
            /\ UNCHANGED <<wifiUp, cnt, env>>
       ELSE \E joined \in BOOLEAN :
              /\ ~joined => env.net > 0
              /\ wifiUp' = joined
              /\ calls' = <<"WiFi.mode", "WiFi.begin">>
              /\ cnt' = [cnt EXCEPT !.wifiDown = @ + 1, !.mode = @ + 1, !.begin = @ + 1]
              /\ env' = IF joined THEN env ELSE [env EXCEPT !.net = @ - 1]
    /\ UNCHANGED <<tCmd, tResp, tLwt, lineBuf, mqttUp, session, retained, tx, fed,
                   pubLog, delivered, waitVars>>

\* main.cpp:100: the last-will text.
lwtMsg == "{\"online\":false,\"id\":\"" \o CRANE_ID \o "\"}"

\* Mutant: the will is not retained.
LastWillNotRetained == [topic |-> tLwt, payload |-> lwtMsg, retain |-> FALSE, qos |-> 1]

\* main.cpp:104-105: the will registered by mqtt.connect
\* (willTopic = tLwt, willQos = 1, willRetain = true, willMessage = lwtMsg).
\* Mutant: the will is registered before the channel names are set.
LastWillUnset == [topic |-> "", payload |-> lwtMsg, retain |-> TRUE, qos |-> 1]

LastWill == [topic |-> tLwt, payload |-> lwtMsg, retain |-> TRUE, qos |-> 1]

\* main.cpp:108: publish(tLwt, {"online":true,...}, /*retain=*/true).
OnlinePublish ==
    PublishCall(tLwt, "{\"online\":true,\"id\":\"" \o CRANE_ID \o "\"}", TRUE)

\* The trace entry of mqtt.connect(clientId, nullptr, nullptr, willTopic,
\* willQos, willRetain, willMessage) and of its result (main.cpp:104-105).
ConnectCall(will, ok) ==
    "mqtt.connect(" \o will.topic \o "," \o (IF will.qos = 1 THEN "1" ELSE "0")
        \o "," \o (IF will.retain THEN "true" ELSE "false")
        \o "," \o will.payload \o ") -> " \o (IF ok THEN "true" ELSE "false")

\* Mutant: the subscribe is issued before the online publish.
ConnectedCallsSwapped ==
    <<"mqtt.subscribe " \o tCmd,
      "mqtt.publish " \o OnlinePublish.topic \o " retained">>

\* main.cpp:108-109: the calls that follow a successful connect.
ConnectedCalls ==
    <<"mqtt.publish " \o OnlinePublish.topic
          \o (IF OnlinePublish.retain THEN " retained" ELSE ""),
      "mqtt.subscribe " \o tCmd>>

\* Mutant: the command channel is subscribed by setup() only.
SubscribedInSetupOnly == IF pc = "setup.ensureMqtt" THEN {tCmd} ELSE {}

\* main.cpp:109: mqtt.subscribe(tCmd.c_str(), 1), what the session is
\* subscribed to once the request has reached the broker.
Subscribed == {tCmd}

\* Mutant: the result of mqtt.connect is ignored, the online publish and
\* the subscribe are issued after every attempt.
EnsureMqttAnnounceAlways ==
    /\ pc \in {"setup.ensureMqtt", "loop.ensureMqtt"}
    /\ pc' = IF pc = "setup.ensureMqtt" THEN "loop.ensureWifi" ELSE "loop.mqtt.loop"
    /\ IF mqttUp
       THEN UNCHANGED <<mqttUp, session, retained, pubLog, calls, cnt, env>>
       ELSE \E outcome \in {"refused", "accepted", "lost"} :
              LET \* a connect with the same client id ends the session the
                  \* broker still holds for it, which fires that session's will
                  afterTakeover == BrokerWill(retained, session)
                  setupCalls == <<"mqtt.setServer", "mqtt.setCallback",
                                  ConnectCall(LastWill, outcome # "refused")>>
              IN  /\ outcome # "refused" => wifiUp
                  /\ (wifiUp /\ outcome # "accepted") => env.net > 0
                  /\ env' = IF wifiUp /\ outcome # "accepted"
                            THEN [env EXCEPT !.net = @ - 1] ELSE env
                  /\ IF outcome = "refused"
                     THEN /\ calls' = calls \o setupCalls \o ConnectedCalls
                          /\ cnt' = [cnt EXCEPT !.mqttDown = @ + 1, !.connect = @ + 1,
                                                !.sub = @ + 1]
                          /\ pubLog' = Append(pubLog, OnlinePublish)
                          /\ UNCHANGED <<mqttUp, session, retained>>
                     ELSE /\ calls' = calls \o setupCalls \o ConnectedCalls
                          /\ cnt' = [cnt EXCEPT !.mqttDown = @ + 1, !.connect = @ + 1,
                                                !.sub = @ + 1]
                          /\ pubLog' = Append(pubLog, OnlinePublish)
                          /\ mqttUp' = (outcome = "accepted")
                          /\ IF outcome = "accepted"
                             THEN /\ session' = [open |-> TRUE, will |-> LastWill,
                                                 subs |-> Subscribed]
                                  /\ retained' = BrokerStore(afterTakeover, OnlinePublish.topic,
                                                    OnlinePublish.payload, OnlinePublish.retain)
                             ELSE /\ session' = [open |-> TRUE, will |-> LastWill, subs |-> {}]
                                  /\ retained' = afterTakeover
    /\ UNCHANGED <<tCmd, tResp, tLwt, lineBuf, wifiUp, tx, fed, delivered, waitVars>>

\* ensureMqtt(), main.cpp:89-111, as one call.  mqtt.connect fails when the
\* network link is down or the broker refuses ("refused"); it succeeds
\* ("accepted"); or it succeeds and the connection is lost before the
\* publish and subscribe that follow reach the broker ("lost").
EnsureMqtt ==
    /\ pc \in {"setup.ensureMqtt", "loop.ensureMqtt"}
    /\ pc' = IF pc = "setup.ensureMqtt" THEN "loop.ensureWifi" ELSE "loop.mqtt.loop"
    /\ IF mqttUp
       THEN UNCHANGED <<mqttUp, session, retained, pubLog, calls, cnt, env>>
       ELSE \E outcome \in {"refused", "accepted", "lost"} :
              LET \* a connect with the same client id ends the session the
                  \* broker still holds for it, which fires that session's will
                  afterTakeover == BrokerWill(retained, session)
                  setupCalls == <<"mqtt.setServer", "mqtt.setCallback",
                                  ConnectCall(LastWill, outcome # "refused")>>
              IN  /\ outcome # "refused" => wifiUp
                  /\ (wifiUp /\ outcome # "accepted") => env.net > 0
                  /\ env' = IF wifiUp /\ outcome # "accepted"
                            THEN [env EXCEPT !.net = @ - 1] ELSE env
                  /\ IF outcome = "refused"
                     THEN /\ calls' = calls \o setupCalls
                          /\ cnt' = [cnt EXCEPT !.mqttDown = @ + 1, !.connect = @ + 1]
                          /\ UNCHANGED <<mqttUp, session, retained, pubLog>>
                     ELSE /\ calls' = calls \o setupCalls \o ConnectedCalls
                          /\ cnt' = [cnt EXCEPT !.mqttDown = @ + 1, !.connect = @ + 1,
                                                !.sub = @ + 1]
                          /\ pubLog' = Append(pubLog, OnlinePublish)
                          /\ mqttUp' = (outcome = "accepted")
                          /\ IF outcome = "accepted"
                             THEN /\ session' = [open |-> TRUE, will |-> LastWill,
                                                 subs |-> Subscribed]
                                  /\ retained' = BrokerStore(afterTakeover, OnlinePublish.topic,
                                                    OnlinePublish.payload, OnlinePublish.retain)
                             ELSE /\ session' = [open |-> TRUE, will |-> LastWill, subs |-> {}]
                                  /\ retained' = afterTakeover
    /\ UNCHANGED <<tCmd, tResp, tLwt, lineBuf, wifiUp, tx, fed, delivered, waitVars>>

\* Mutant: the payload is written last byte first.
RECURSIVE WriteFromReversed(_, _, _)
WriteFromReversed(out, payload, i) ==
    IF i < Len(payload)
    THEN WriteFromReversed(Append(out, payload[Len(payload) - i]), payload, i + 1)
    ELSE out

\* main.cpp:73-75: for (i = 0; i < length; i++) Serial.write(payload[i]).
RECURSIVE WriteFrom(_, _, _)
WriteFrom(out, payload, i) ==
    IF i < Len(payload)
    THEN WriteFrom(Append(out, payload[i + 1]), payload, i + 1)   \* Serial.write(payload[i])
    ELSE out

\* Mutant: the newline is appended to every command.
onMqttAlwaysNewline(out, topic, payload) ==
    IF topic # tCmd THEN out ELSE Append(WriteFrom(out, payload, 0), LF)

\* Mutant: the topic is matched by prefix.
onMqttPrefix(out, topic, payload) ==
    LET length == Len(payload)
    IN  IF Len(topic) < Len(tCmd) \/ SubSeq(topic, 1, Len(tCmd)) # tCmd THEN out
        ELSE LET forwarded == WriteFrom(out, payload, 0)
             IN  IF length = 0 \/ payload[length] # LF
                 THEN Append(forwarded, LF)
                 ELSE forwarded

\* onMqtt(topic, payload, length), main.cpp:68-81: the bytes on the UART
\* after the call, given the bytes `out` written before it.
onMqtt(out, topic, payload) ==
    LET length == Len(payload)
    IN  IF topic # tCmd THEN out
        ELSE LET forwarded == WriteFrom(out, payload, 0)
             IN  IF length = 0 \/ payload[length] # LF
                 THEN Append(forwarded, LF)
                 ELSE forwarded

\* Mutant: the callback uses lineBuf as scratch space and leaves it empty.
DeliverClobbers(topic, payload) ==
    /\ pc = "loop.mqtt.loop"
    /\ mqttUp
    /\ env.cmd > 0
    /\ env' = [env EXCEPT !.cmd = @ - 1]
    /\ delivered' = Append(delivered, [topic |-> topic, payload |-> payload])
    /\ tx' = onMqtt(tx, topic, payload)
    /\ lineBuf' = << >>
    /\ UNCHANGED <<pc, tCmd, tResp, tLwt, wifiUp, mqttUp, session, retained,
                   fed, pubLog, calls, cnt, waitVars>>

\* mqtt.loop(), main.cpp:144, handing one inbound message to the callback.
\* The library pumps only while connected.
Deliver(topic, payload) ==
    /\ pc = "loop.mqtt.loop"
    /\ mqttUp
    /\ env.cmd > 0
    /\ env' = [env EXCEPT !.cmd = @ - 1]
    /\ delivered' = Append(delivered, [topic |-> topic, payload |-> payload])
    /\ tx' = onMqtt(tx, topic, payload)
    /\ UNCHANGED <<pc, tCmd, tResp, tLwt, lineBuf, wifiUp, mqttUp, session, retained,
                   fed, pubLog, calls, cnt, waitVars>>

MqttLoop == \E m \in Messages : Deliver(m.topic, m.payload)

\* mqtt.loop() returns; the drain loop of main.cpp:149 is next.
MqttLoopReturn ==
    /\ pc = "loop.mqtt.loop"
    /\ pc' = "loop.drain"
    /\ calls' = Append(calls, "mqtt.loop")
    /\ UNCHANGED <<tCmd, tResp, tLwt, lineBuf, wifiUp, mqttUp, session, retained,
                   tx, fed, pubLog, cnt, delivered, env, waitVars>>

\* Mutant: the byte is stored without a bounds check.
AppendByteUnchecked(buf, c) == Append(buf, c)

\* Mutant: no room is left for the terminator.
AppendByteNoRoom(buf, c) == IF Len(buf) < LINE_BUF THEN Append(buf, c) ELSE buf

\* main.cpp:162-164: append if space remains (leave room for '\0').
AppendByte(buf, c) == IF Len(buf) < LINE_BUF - 1 THEN Append(buf, c) ELSE buf

\* Mutant: the line is kept for a retry when the messaging link is down.
FeedKeepsUndelivered(c) ==
    /\ pc = "loop.drain"
    /\ env.in > 0
    /\ env' = [env EXCEPT !.in = @ - 1]
    /\ fed' = Append(fed, c)
    /\ IF c = CR
       THEN UNCHANGED <<lineBuf, pubLog, calls>>
       ELSE IF c = LF
            THEN IF lineLen > 0
                 THEN LET terminated == Append(lineBuf, NUL)    \* lineBuf[lineLen] = '\0'
                      IN  /\ pubLog' = Append(pubLog,
                                         PublishCall(tResp, StringOf(terminated), FALSE))
                          /\ calls' = Append(calls, "mqtt.publish " \o tResp)
                          /\ lineBuf' = IF mqttUp THEN << >> ELSE lineBuf
                 ELSE UNCHANGED <<lineBuf, pubLog, calls>>
            ELSE /\ lineBuf' = AppendByte(lineBuf, c)
                 /\ UNCHANGED <<pubLog, calls>>
    /\ UNCHANGED <<pc, tCmd, tResp, tLwt, wifiUp, mqttUp, session, retained, tx,
                   cnt, delivered, waitVars>>

\* One iteration of while (Serial.available()), main.cpp:149-167, reading c.
Feed(c) ==
    /\ pc = "loop.drain"
    /\ env.in > 0
    /\ env' = [env EXCEPT !.in = @ - 1]
    /\ fed' = Append(fed, c)
    /\ IF c = CR
       THEN UNCHANGED <<lineBuf, pubLog, calls>>
       ELSE IF c = LF
            THEN IF lineLen > 0
                 THEN LET terminated == Append(lineBuf, NUL)    \* lineBuf[lineLen] = '\0'
                      IN  /\ pubLog' = Append(pubLog,
                                         PublishCall(tResp, StringOf(terminated), FALSE))
                          /\ calls' = Append(calls, "mqtt.publish " \o tResp)
                          /\ lineBuf' = << >>
                 ELSE UNCHANGED <<lineBuf, pubLog, calls>>
            ELSE /\ lineBuf' = AppendByte(lineBuf, c)
                 /\ UNCHANGED <<pubLog, calls>>
    /\ UNCHANGED <<pc, tCmd, tResp, tLwt, wifiUp, mqttUp, session, retained, tx,
                   cnt, delivered, waitVars>>

Drain == \E c \in Bytes : Feed(c)

\* Serial.available() is 0: loop() returns and is called again.
DrainReturn ==
    /\ pc = "loop.drain"
    /\ pc' = "loop.ensureWifi"
    /\ UNCHANGED <<tCmd, tResp, tLwt, lineBuf, wifiUp, mqttUp, session, retained,
                   tx, fed, pubLog, calls, cnt, delivered, env, waitVars>>

----------------------------------------------------------------------------
(* The environment *)

\* The network link drops (WiFi.status() is no longer WL_CONNECTED).
WifiDrop ==
    /\ wifiUp
    /\ env.net > 0
    /\ wifiUp' = FALSE
    /\ env' = [env EXCEPT !.net = @ - 1]
    /\ UNCHANGED <<pc, tCmd, tResp, tLwt, lineBuf, mqttUp, session, retained, tx, fed,
                   pubLog, calls, cnt, delivered, waitVars>>

\* The station started by WiFi.begin associates after ensureWifi timed out.
WifiJoin ==
    /\ ~wifiUp
    /\ cnt.begin > 0
    /\ wifiUp' = TRUE
    /\ UNCHANGED <<pc, tCmd, tResp, tLwt, lineBuf, mqttUp, session, retained, tx, fed,
                   pubLog, calls, cnt, delivered, env, waitVars>>

\* The connection to the broker breaks (mqtt.connected() turns false); no
\* code of the sketch runs, nothing is sent to the broker.
MqttDrop ==
    /\ mqttUp
    /\ env.net > 0
    /\ mqttUp' = FALSE
    /\ env' = [env EXCEPT !.net = @ - 1]
    /\ UNCHANGED <<pc, tCmd, tResp, tLwt, lineBuf, wifiUp, session, retained, tx, fed,
                   pubLog, calls, cnt, delivered, waitVars>>

\* The broker notices that the client of its session is gone and publishes
\* the will registered by that session's connect (main.cpp:104-105).
BrokerDetect ==
    /\ session.open
    /\ ~mqttUp
    /\ retained' = BrokerWill(retained, session)
    /\ session' = NoSession
    /\ UNCHANGED <<pc, tCmd, tResp, tLwt, lineBuf, wifiUp, mqttUp, tx, fed,
                   pubLog, calls, cnt, delivered, env, waitVars>>

----------------------------------------------------------------------------
(* ensureWifi(), main.cpp:48-60, poll by poll *)

\* uint32_t addition of a small d, and subtraction, modulo 2^32.
Add32(a, d) ==
    LET lo == a[2] + d
    IN  <<(a[1] + (lo \div Word)) % Word, lo % Word>>

Sub32(a, b) ==
    LET lo == a[2] - b[2]
        borrow == IF lo < 0 THEN 1 ELSE 0
    IN  <<(a[1] - b[1] - borrow + Word) % Word, (lo + Word) % Word>>

\* a > n for a uint32_t a and a constant n below 2^16.
Gt32(a, n) == a[1] > 0 \/ a[2] > n

\* Mutant: the deadline start + 20000 is compared with millis().
TimedOutDeadline(t, s) ==
    LET deadline == Add32(s, TIMEOUT_MS)
    IN  t[1] > deadline[1] \/ (t[1] = deadline[1] /\ t[2] > deadline[2])

\* The test of main.cpp:58: millis() - start > 20000UL.
TimedOut(t, s) == Gt32(Sub32(t, s), TIMEOUT_MS)

\* main.cpp:49-55: return when connected, else mode, begin, start = millis().
WifiEntry ==
    /\ wpc = "entry"
    /\ IF wifiUp
       THEN /\ wpc' = "returned.noop"
            /\ UNCHANGED <<start, calls, cnt>>
       ELSE /\ wpc' = "while"
            /\ start' = now
            /\ calls' = <<"WiFi.mode", "WiFi.begin">>
            /\ cnt' = [cnt EXCEPT !.wifiDown = @ + 1, !.mode = @ + 1, !.begin = @ + 1]
    /\ UNCHANGED <<pc, tCmd, tResp, tLwt, lineBuf, wifiUp, mqttUp, session, retained,
                   tx, fed, pubLog, delivered, env, now, elapsed>>

\* main.cpp:56: while (WiFi.status() != WL_CONNECTED).
WifiWhile ==
    /\ wpc = "while"
    /\ wpc' = IF wifiUp THEN "returned.connected" ELSE "delay"
    /\ UNCHANGED <<bridgeVars, start, now, elapsed>>

\* main.cpp:57-58: delay(300); if (millis() - start > 20000UL) break.
WifiDelay ==
    /\ wpc = "delay"
    /\ \E j \in 0..MaxJitter :
         /\ now' = Add32(now, POLL_MS + j)
         /\ elapsed' = elapsed + POLL_MS + j
    /\ wpc' = IF TimedOut(now', start) THEN "returned.timeout" ELSE "while"
    /\ UNCHANGED <<bridgeVars, start>>

\* The station associates while ensureWifi waits.
WifiAssociates ==
    /\ wpc \in {"while", "delay"}
    /\ ~wifiUp
    /\ wifiUp' = TRUE
    /\ UNCHANGED <<pc, tCmd, tResp, tLwt, lineBuf, mqttUp, session, retained,
                   tx, fed, pubLog, calls, cnt, delivered, env, waitVars>>

NextWifi == WifiEntry \/ WifiWhile \/ WifiDelay \/ WifiAssociates

\* The sketch keeps running: the call in progress takes its next step.
SpecWifi == InitWifi /\ [][NextWifi]_vars /\ WF_vars(WifiEntry \/ WifiWhile \/ WifiDelay)

----------------------------------------------------------------------------

Next ==
    \/ SetupTopics
    \/ EnsureWifi
    \/ EnsureMqtt
    \/ MqttLoop
    \/ MqttLoopReturn
    \/ Drain
    \/ DrainReturn
    \/ WifiDrop
    \/ WifiJoin
    \/ MqttDrop
    \/ BrokerDetect

Spec == Init /\ [][Next]_vars
SpecFramer == InitFramer /\ [][Next]_vars
SpecCmd == InitCmd /\ [][Next]_vars

\* The sketch never stops: loop() is called again and again, and every call
\* of the sketch returns.  Nothing is assumed of the environment.
Sketch == SetupTopics \/ EnsureWifi \/ EnsureMqtt \/ MqttLoopReturn \/ DrainReturn
SpecLive == Init /\ [][Next]_vars /\ WF_vars(Sketch)


----------------------------------------------------------------------------
(* Reference definitions the claims are stated with *)

Last(s) == s[Len(s)]

Min(a, b) == IF a < b THEN a ELSE b

\* The '\n'-terminated segments of a byte sequence, in order.
RECURSIVE SegmentsFrom(_, _)
SegmentsFrom(s, cur) ==
    IF s = << >> THEN << >>
    ELSE IF Head(s) = LF THEN <<cur>> \o SegmentsFrom(Tail(s), << >>)
         ELSE SegmentsFrom(Tail(s), Append(cur, Head(s)))

IsNotCR(b) == b # CR
IsNotEmpty(seg) == seg # << >>

\* Segments with every '\r' removed, empty ones dropped, each cut to its
\* first LINE_BUF-1 bytes.
RefLines(s) ==
    LET segs == SegmentsFrom(s, << >>)
        clean == [k \in 1..Len(segs) |-> SelectSeq(segs[k], IsNotCR)]
        kept == SelectSeq(clean, IsNotEmpty)
    IN  [k \in 1..Len(kept) |-> SubSeq(kept[k], 1, Min(Len(kept[k]), LINE_BUF - 1))]

\* What a NUL-terminated string carries of a byte sequence.
RECURSIVE UpToNul(_)
UpToNul(s) ==
    IF s = << >> \/ Head(s) = NUL THEN << >> ELSE <<Head(s)>> \o UpToNul(Tail(s))

\* The publish calls on the response channel, in call order.
IsResp(call) == call.topic = RespChannel
RespPublishes == SelectSeq(pubLog, IsResp)
RespPayloads == [k \in 1..Len(RespPublishes) |-> RespPublishes[k].payload]

\* The normalized form of a command payload.
Normalized(P) == IF P = << >> \/ Last(P) # LF THEN P \o <<LF>> ELSE P

IsCmd(m) == m.topic = CmdChannel
RECURSIVE Concat(_)
Concat(ss) == IF ss = << >> THEN << >> ELSE Head(ss) \o Concat(Tail(ss))
ExpectedTx ==
    LET cmds == SelectSeq(delivered, IsCmd)
    IN  Concat([k \in 1..Len(cmds) |-> Normalized(cmds[k].payload)])

\* A callback invocation happens in this step.
Invoked == delivered' # delivered

----------------------------------------------------------------------------
(* Claims *)

\* C1 (as claimed): the payloads published to the response channel are the
\* '\n'-delimited segments of the bytes read, '\r' removed, empty segments
\* dropped, each cut to LINE_BUF-1 bytes, for all byte values, NUL included.
C1_FramingAllBytes == RespPayloads = RefLines(fed)

\* C2: one invocation of onMqtt on the command channel writes the payload
\* followed by one '\n' when the payload is empty or does not end in '\n',
\* and the payload unchanged otherwise.
C2_CommandTermination ==
    [][(Invoked /\ Last(delivered').topic = CmdChannel)
         => tx' = tx \o Normalized(Last(delivered').payload)]_vars

\* C2 witness: an empty command and one that already ends in '\n' were
\* forwarded: one newline for the first, none added to the second.
C2_Witness ==
    /\ Len(delivered) = 2
    /\ delivered[1] = [topic |-> CmdChannel, payload |-> << >>]
    /\ delivered[2] = [topic |-> CmdChannel, payload |-> <<65, LF>>]
    /\ tx = <<LF, 65, LF>>

\* C5: the publish calls on the response channel are exactly one per
\* completed line, not retained, in the order the lines were completed, each
\* carrying the line as a NUL-terminated string carries it.
C5_ResponseOrder ==
    RespPublishes = [k \in 1..Len(RefLines(fed)) |->
                       [topic |-> RespChannel,
                        payload |-> UpToNul(RefLines(fed)[k]),
                        retain |-> FALSE]]

\* C5 witness: two different lines were published, the first one read in
\* an earlier cycle than the second, with a reconnect and a callback in the run.
C5_Witness ==
    /\ Len(RespPublishes) = 2
    /\ RespPublishes[1].payload # RespPublishes[2].payload
    /\ calls = <<"mqtt.loop", "mqtt.publish " \o tResp>>
    /\ cnt.connect >= 2
    /\ delivered # << >>

\* C6: the bytes written to the UART are the normalized payloads of the
\* command-channel messages, concatenated in delivery order.
C6_CommandOrder == tx = ExpectedTx

\* C6 witness: two different commands were forwarded.
C6_Witness ==
    /\ Len(SelectSeq(delivered, IsCmd)) = 2
    /\ delivered[1].payload # delivered[2].payload
    /\ Len(tx) >= 3

\* C7: an invocation of onMqtt with a channel name other than tCmd writes
\* nothing to the UART and changes no state of the sketch or the broker.
C7_ChannelFilter ==
    [][(Invoked /\ Last(delivered').topic # tCmd)
         => UNCHANGED <<pc, tCmd, tResp, tLwt, lineBuf, wifiUp, mqttUp, session,
                        retained, tx, fed, pubLog, calls, cnt>>]_vars

\* C7 witness: a message on a name that has tCmd as a prefix, and one on the
\* response channel, were handed to onMqtt and nothing was written.
C7_Witness ==
    /\ Len(delivered) = 2
    /\ delivered[1].topic = tCmd \o "/x"
    /\ delivered[2].topic = tResp
    /\ tx = << >>

\* The publish calls that carry the online record, in call order.
IsOnline(call) == call.payload = OnlineRecord
OnlinePublishes == SelectSeq(pubLog, IsOnline)

\* A connect was accepted by the broker at some time of the run.
EverAccepted == cnt.sub > 0

C4_EnsureIdempotent ==
    /\ [](/\ cnt.mode <= cnt.wifiDown
          /\ cnt.begin <= cnt.wifiDown
          /\ cnt.connect <= cnt.mqttDown
          /\ Len(OnlinePublishes) <= cnt.mqttDown
          /\ cnt.sub <= cnt.mqttDown)
    /\ [][/\ (pc \in {"setup.ensureWifi", "loop.ensureWifi"} /\ pc' # pc /\ wifiUp)
             => (calls' = << >> /\ UNCHANGED <<cnt, wifiUp, pubLog, session, retained>>)
          /\ (pc \in {"setup.ensureMqtt", "loop.ensureMqtt"} /\ pc' # pc /\ mqttUp)
             => UNCHANGED <<calls, cnt, mqttUp, pubLog, session, retained>>]_vars

\* C4 witness: a cycle in which both ensure-operations found their link up
\* and made no call, after entries that had to connect.
C4_Witness ==
    /\ pc = "loop.mqtt.loop"
    /\ calls = << >>
    /\ cnt.wifiDown >= 1 /\ cnt.begin >= 1
    /\ cnt.mqttDown >= 2 /\ cnt.connect >= 2 /\ cnt.sub >= 2

\* C8: after setupTopics the channel names are crane/ID/cmd, crane/ID/resp
\* and crane/ID/lwt for ID = crane-1, pairwise distinct, with the common
\* prefix crane/ID, and stay so whatever runs later.
C8_ChannelSet ==
    pc # "setupTopics" =>
       /\ tCmd = "crane/crane-1/cmd"
       /\ tResp = "crane/crane-1/resp"
       /\ tLwt = "crane/crane-1/lwt"
       /\ tCmd # tResp /\ tCmd # tLwt /\ tResp # tLwt
       /\ \A t \in {tCmd, tResp, tLwt} : SubSeq(t, 1, 13) = "crane/crane-1"

\* C8 witness: every later operation has run (a reconnect, a callback, a
\* published line) and the names are the derived ones.
C8_Witness ==
    /\ pc = "loop.drain"
    /\ tLwt = "crane/crane-1/lwt"
    /\ cnt.connect >= 2
    /\ delivered # << >>
    /\ RespPublishes # << >>

\* The messaging link is up, the online record retained, the command
\* channel subscribed.
Connected ==
    /\ wifiUp /\ mqttUp
    /\ session.open
    /\ retained = OnlineRecord
    /\ CmdChannel \in session.subs

\* C9: from every reachable state the sketch gets back to a connected
\* messaging link with the online record published and the command channel
\* subscribed, however many association timeouts, refused connects and drops
\* came before (in a run they are finitely many).
C9_IndefiniteRetry == []<>Connected

\* C9 witness: connected after an association timeout and a refused connect.
C9_Witness ==
    /\ Connected
    /\ cnt.wifiDown >= 2
    /\ cnt.connect >= 2
    /\ env.net = 0

Returned == {"returned.noop", "returned.connected", "returned.timeout"}

\* C10: a call of ensureWifi returns; while it waits no more than 20000 ms
\* have passed; it returns on timeout only after more than 20000 ms and at
\* most one poll interval (300 ms and the delay's overshoot) later, for
\* every start value of millis(); when the link is up at entry it returns
\* at once.
C10_BoundedWait ==
    /\ [](/\ wpc \in {"while", "delay"} => elapsed <= TIMEOUT_MS
          /\ wpc = "returned.timeout" =>
               /\ elapsed > TIMEOUT_MS
               /\ elapsed <= TIMEOUT_MS + POLL_MS + MaxJitter
          /\ wpc = "returned.connected" => wifiUp
          /\ wpc = "returned.noop" => (elapsed = 0 /\ calls = << >>))
    /\ <>(wpc \in Returned)

\* C10 witness: the link never came up and the call returned on timeout
\* after millis() wrapped around during the wait.
C10_Witness ==
    /\ wpc = "returned.timeout"
    /\ ~wifiUp
    /\ start[1] = Word - 1
    /\ now[1] = 0


\* The bytes of s after its last '\n'.
RECURSIVE AfterLastLF(_)
AfterLastLF(s) ==
    IF s = << >> \/ Last(s) = LF THEN << >>
    ELSE Append(AfterLastLF(SubSeq(s, 1, Len(s) - 1)), Last(s))

\* The line under assembly after the bytes s: the bytes since the last '\n',
\* every '\r' removed, cut to the first LINE_BUF-1.
PendingLine(s) ==
    LET clean == SelectSeq(AfterLastLF(s), IsNotCR)
    IN  SubSeq(clean, 1, Min(Len(clean), LINE_BUF - 1))

\* A step of the drain loop that consumed the byte c.
Consumed(c) == fed' = Append(fed, c)

\* C11: in every reachable state 0 <= lineLen <= LINE_BUF-1, so the
\* terminator written at index lineLen before a publish is inside lineBuf;
\* the buffer holds the line under assembly cut to LINE_BUF-1 bytes.
C11_LineBufferBound ==
    /\ lineLen >= 0
    /\ lineLen <= LINE_BUF - 1
    /\ lineBuf = PendingLine(fed)

\* The buffer is full and one more byte of the same line has been dropped.
C11_Witness ==
    /\ lineLen = LINE_BUF - 1
    /\ Len(AfterLastLF(fed)) > LINE_BUF - 1
    /\ Last(fed) = 65
    /\ RespPublishes = << >>

\* C12: no publish on the response channel carries an empty payload, also
\* when the buffered line begins with a 0x00 byte.
C12_NoEmptyPublish ==
    \A k \in 1..Len(RespPublishes) : RespPublishes[k].payload # << >>

\* C13: with LINE_BUF-1 bytes buffered, a byte other than '\n' leaves the
\* buffer unchanged and publishes nothing; the next '\n' publishes exactly
\* the first LINE_BUF-1 non-CR bytes of the line and resets the buffer, so
\* the next line starts empty.
C13_OverflowStep ==
    lineLen = LINE_BUF - 1 =>
        /\ \A c \in Bytes \ {LF} :
              Consumed(c) => lineBuf' = lineBuf /\ pubLog' = pubLog
        /\ Consumed(LF) =>
              /\ pubLog' = Append(pubLog, PublishCall(RespChannel, PendingLine(fed), FALSE))
              /\ lineBuf' = << >>
C13_OverflowPolicy == [][C13_OverflowStep]_vars

\* Trace entries of the calls of one setup()/loop() invocation.
ConnectTrue ==
    "mqtt.connect(" \o PresenceChannel \o ",1,true," \o OfflineRecord \o ") -> true"
ConnectFalse ==
    "mqtt.connect(" \o PresenceChannel \o ",1,true," \o OfflineRecord \o ") -> false"
PublishOnline == "mqtt.publish " \o PresenceChannel \o " retained"
SubscribeCmd == "mqtt.subscribe " \o CmdChannel
PublishResp == "mqtt.publish " \o RespChannel
Pump == "mqtt.loop"

\* The positions of the trace entry e.
At(e) == {i \in 1..Len(calls) : calls[i] = e}

\* The cycle's trace ends with a failed connect.
JustFailed == calls # << >> /\ Last(calls) = ConnectFalse

\* A step in which mqtt.connect was called and returned ok.
ConnectReturned(ok) ==
    /\ cnt'.connect = cnt.connect + 1
    /\ \E i \in 1..Len(calls') :
          calls'[i] = IF ok THEN ConnectTrue ELSE ConnectFalse

\* C14: every successful mqtt.connect is followed, within the same ensureMqtt
\* call, by exactly one retained publish of the online record on the presence
\* channel and then exactly one subscribe to the command channel, both before
\* any pump and any response publish of that cycle.
C14_TraceOrder ==
    /\ \A i \in At(ConnectTrue) :
          /\ i + 2 <= Len(calls)
          /\ calls[i + 1] = PublishOnline
          /\ calls[i + 2] = SubscribeCmd
    /\ Cardinality(At(PublishOnline)) = Cardinality(At(ConnectTrue))
    /\ Cardinality(At(SubscribeCmd)) = Cardinality(At(ConnectTrue))
    /\ Cardinality(At(ConnectTrue)) <= 1
    /\ \A i \in At(PublishOnline) \cup At(SubscribeCmd) :
          \A j \in At(Pump) \cup At(PublishResp) : i < j
C14_ConnectStep ==
    ConnectReturned(TRUE) =>
        /\ calls' = calls \o <<"mqtt.setServer", "mqtt.setCallback",
                               ConnectTrue, PublishOnline, SubscribeCmd>>
        /\ pubLog' = Append(pubLog, PublishCall(PresenceChannel, OnlineRecord, TRUE))
        /\ cnt'.sub = cnt.sub + 1
C14_ConnectSequence == [](C14_TraceOrder) /\ [][C14_ConnectStep]_vars

\* A cycle of loop() reconnected, pumped and published a response line.
C14_Witness ==
    /\ calls = <<"mqtt.setServer", "mqtt.setCallback", ConnectTrue,
                 PublishOnline, SubscribeCmd, Pump, PublishResp>>
    /\ cnt.sub >= 2
    /\ Len(OnlinePublishes) = cnt.sub

\* The connect attempts a run can make within the budget of failures.
MaxAttempts == 2 * MaxNet + 2

\* C15: when mqtt.connect returns false, ensureMqtt publishes nothing,
\* subscribes to nothing and leaves the line buffer, the channel names and
\* the link state as they were; the rest of the cycle runs (pump no-op, then
\* drain), and the next cycle issues a new connect attempt.
C15_FailedStep ==
    ConnectReturned(FALSE) =>
        /\ UNCHANGED <<pubLog, lineBuf, fed, tCmd, tResp, tLwt, tx, session, retained>>
        /\ cnt'.sub = cnt.sub
        /\ Last(calls') = ConnectFalse
        /\ ~mqttUp'
        /\ pc' = IF pc = "setup.ensureMqtt" THEN "loop.ensureWifi" ELSE "loop.mqtt.loop"
C15_ConnectFailureNoOp ==
    /\ [][C15_FailedStep]_vars
    /\ \A n \in 1..MaxAttempts :
          /\ (pc = "loop.mqtt.loop" /\ ~mqttUp /\ cnt.connect = n)
                ~> (pc = "loop.drain" /\ cnt.connect = n)
          /\ (JustFailed /\ ~mqttUp /\ cnt.connect = n)
                ~> (cnt.connect = n + 1)

\* A reconnect attempt of loop() failed while a partial line was pending and
\* the channel names were set.
C15_Witness ==
    /\ JustFailed
    /\ cnt.connect >= 2
    /\ ~mqttUp
    /\ tCmd = CmdChannel
    /\ pc = "loop.mqtt.loop"
    /\ lineBuf # << >>

\* A step in which mqtt.connect was called.
ConnectAttempted == cnt'.connect = cnt.connect + 1

\* C16: the messaging link is connected only while the network link is
\* connected, and mqtt.connect is never attempted, nor reported successful,
\* while the network link is disconnected.
C16_LinkDependency ==
    /\ [](mqttUp => wifiUp)
    /\ [][ConnectAttempted => wifiUp]_vars
    /\ [][(~mqttUp /\ mqttUp') => wifiUp]_vars

\* C17: only the drain loop changes the line buffer: ensureWifi, ensureMqtt,
\* the pump, the command callback and the link events all leave lineBuf and
\* lineLen as they were, so a partial line survives them.
C17_OnlyDrainWrites ==
    (lineBuf' # lineBuf) => (pc = "loop.drain" /\ \E c \in Bytes : Consumed(c))
C17_LineBufferOwnership == [][C17_OnlyDrainWrites]_vars

\* A partial line buffered in an earlier cycle is still there after failed
\* connects, the first successful connect and a command written to the UART.
C17_Witness ==
    /\ pc = "loop.mqtt.loop"
    /\ lineBuf # << >>
    /\ At(ConnectTrue) # {}
    /\ cnt.sub = 1
    /\ cnt.connect >= 2
    /\ delivered # << >>
    /\ tx # << >>

\* The will the sketch is to register.
ExpectedWill ==
    [topic |-> PresenceChannel, payload |-> OfflineRecord, retain |-> TRUE, qos |-> 1]

\* The trace entry e is a call of mqtt.connect.
IsConnect(e) == Len(e) >= 13 /\ SubSeq(e, 1, 13) = "mqtt.connect("

\* C18: the channel names are computed once, before any network or broker
\* activity, and every mqtt.connect issued, accepted or not, registers a will
\* on crane/<CRANE_ID>/lwt carrying the offline record, retained, QoS 1.
C18_WillRegistered ==
    /\ \A i \in 1..Len(calls) :
          IsConnect(calls[i]) => calls[i] \in {ConnectTrue, ConnectFalse}
    /\ session.open => session.will = ExpectedWill
    /\ (calls # << >> \/ cnt.begin > 0 \/ cnt.connect > 0) =>
          <<tCmd, tResp, tLwt>> = <<CmdChannel, RespChannel, PresenceChannel>>
C18_TopicsOnce ==
    (<<tCmd, tResp, tLwt>>' # <<tCmd, tResp, tLwt>>) =>
        (pc = "setupTopics" /\ calls = << >> /\ cnt.begin = 0 /\ cnt.connect = 0)
C18_ConnectCarriesWill ==
    ConnectAttempted => (ConnectReturned(TRUE) \/ ConnectReturned(FALSE))
C18_LastWillOnEveryConnect ==
    /\ [](C18_WillRegistered)
    /\ [][C18_TopicsOnce]_vars
    /\ [][C18_ConnectCarriesWill]_vars

\* A reconnect was refused while the broker still held the session of an
\* earlier accepted connect: both requests carried the will.
C18_Witness ==
    /\ JustFailed
    /\ cnt.sub >= 1
    /\ session.open
    /\ session.will = ExpectedWill

C20_NewlineStep ==
    /\ (Consumed(LF) /\ lineBuf # << >>) =>
          /\ lineBuf' = << >>
          /\ Len(pubLog') = Len(pubLog) + 1
          /\ Last(pubLog').topic = RespChannel
          /\ Last(calls') = PublishResp
    /\ (RespPublishes' # RespPublishes) =>
          /\ Consumed(LF) /\ lineBuf # << >>
          /\ Len(RespPublishes') = Len(RespPublishes) + 1
C20_LinesAccounted ==
    /\ Len(RespPublishes) = Len(RefLines(fed))
    /\ lineBuf = PendingLine(fed)
C20_ResetRegardless == [](C20_LinesAccounted) /\ [][C20_NewlineStep]_vars

\* A line was completed in a cycle whose connect attempt failed: it was
\* handed to publish and the buffer is empty.
C20_Witness ==
    /\ pc = "loop.drain"
    /\ ~mqttUp
    /\ At(ConnectFalse) # {}
    /\ calls # << >> /\ Last(calls) = PublishResp
    /\ Len(RespPublishes) = 1
    /\ lineBuf = << >>
====
